---- MODULE Spec2Model ----
(***************************************************************************)
(* Model of internal/lsp/elasticserver.go: the elastic extension of the    *)
(* Go language server (EDefinition, the workspace module manager behind    *)
(* ManageDeps, the vendor-mode registry and Cleanup).                      *)
(*                                                                         *)
(* Directories are absolute, clean paths, written as the sequence of their *)
(* segment names: <<"w","a">> is /w/a and <<>> is the root separator.      *)
(* File names handed to EDefinition are sequences of one-character         *)
(* strings, because the code compares them with strings.HasPrefix.         *)
(***************************************************************************)
EXTENDS Integers, Sequences, FiniteSets, TLC

VARIABLES
    files,                  \* the filesystem: directory -> names that os.Stat finds in it
    noPerm,                 \* directories that can neither be listed nor searched
    folderUnderVendorMode,  \* the registry captured by vendorModeHelper's closures
    lastOp,                 \* the most recent registry helper call: arguments, result, registry before
    pc,                     \* position of the ManageDeps / Cleanup caller
    calls,                  \* number of ManageDeps calls made in this session
    folders,                \* *folders, the slice ManageDeps mutates
    ranged,                 \* the slice value the running range loop iterates over
    idx,                    \* number of elements of ranged already processed
    depsMgr,                \* the DepsManager local to ManageDeps
    FolderNeedsCleanup,     \* ElasticServer.FolderNeedsCleanup
    lastScan,               \* what the most recent collectMetadata call computed
    manualGoMod,            \* directories in which constructGoModManually created go.mod
    original,               \* the folder list as the client sent it
    scanned,                \* folders run() was called on during the current ManageDeps
    visited,                \* folders downloadDeps iterated over during the current ManageDeps
    lastFetch,              \* the most recent downloadDeps iteration
    failedSinceClear,       \* folders whose fetch failed since the last clearVendorFolder call
    atShutdown,             \* the filesystem as Cleanup found it
    req,                    \* the EDefinition request being served, with what its collaborators answer
    resp,                   \* EDefinition's return value and the helpers it invoked
    callers,                \* where each of two goroutines stands in its downloadDeps call
    overlapped              \* whether two downloadDeps calls were ever in progress at once

fsVars     == <<files, noPerm>>
vendorVars == <<folderUnderVendorMode, lastOp>>
depsVars   == <<pc, calls, folders, ranged, idx, depsMgr, FolderNeedsCleanup, lastScan,
                manualGoMod, original, scanned, visited, lastFetch, failedSinceClear,
                atShutdown>>
defVars    == <<req, resp>>
sharedVars == <<callers, overlapped>>
vars       == <<files, noPerm, folderUnderVendorMode, lastOp, pc, calls, folders, ranged, idx,
                depsMgr, FolderNeedsCleanup, lastScan, manualGoMod, original, scanned,
                visited, lastFetch, failedSinceClear, atShutdown, req, resp, callers,
                overlapped>>

---------------------------------------------------------------------------
(* The directory universe of the model.                                    *)

W   == <<"w">>
WA  == <<"w", "a">>
WB  == <<"w", "b">>
WAC == <<"w", "a", "c">>
WBC == <<"w", "b", "c">>
WH  == <<"w", ".h">>

Dirs == {W, WA, WB, WAC, WBC, WH}

\* Entry names in the lexical order in which filepath.Walk and ioutil.ReadDir list them.
EntryOrder == <<".h", "a", "b", "c", "go.mod">>

\* base[0] == '.' : the names of the universe that start with a dot.
IsHiddenName(name) == name \in {".h"}

Base(dir) == IF dir = <<>> THEN "/" ELSE dir[Len(dir)]

IsPrefix(p, q) == Len(p) <= Len(q) /\ SubSeq(q, 1, Len(p)) = p

Range(s) == {s[i] : i \in 1..Len(s)}

Count(s, x) == Cardinality({i \in 1..Len(s) : s[i] = x})

DependencyControlSystem ==
    {"GLOCKFILE", "Godeps/Godeps.json", "Gopkg.lock", "dependencies.tsv", "glide.lock",
     "vendor.conf", "vendor.yml", "vendor/manifest", "vendor/vendor.json"}

\* What a directory may hold when the server first sees it.
Kinds ==
    { {},
      {"x.go"},
      {"x_test.go"},
      {"go.mod", "go.sum", "x.go"},
      {"Gopkg.lock", "x.go"},
      {"vendor", "x.go"},
      {"go.mod", "vendor"},
      {"vendor", "vendor/manifest"} }

\* os.Stat(filepath.Join(dir, name)) succeeds.
Stat(fs, np, dir, name) == dir \in Dirs /\ dir \notin np /\ name \in fs[dir]

---------------------------------------------------------------------------
(* vendorModeHelper: the three closures over folderUnderVendorMode.        *)
(* Go indexes from 0; reg[i + 1] is the code's folderUnderVendorMode[i].   *)

\* A store that forgets the folder.
storeVendorFolderDrop(reg, folder) == reg

storeVendorFolder(reg, folder) == Append(reg, folder)

FirstIndex(reg, folder) ==
    (CHOOSE i \in 1..Len(reg) : reg[i] = folder /\ \A j \in 1..(i - 1) : reg[j] # folder) - 1

\* A check that looks at vendor before go.mod and the legacy manifests.
checkVendorFolderVendorFirst(reg, fs, np, folder) ==
    IF folder \in Range(reg)
    THEN [ret |-> FirstIndex(reg, folder), reg |-> reg]
    ELSE IF Stat(fs, np, folder, "vendor")
    THEN [ret |-> Len(reg), reg |-> Append(reg, folder)]
    ELSE [ret |-> -1, reg |-> reg]

checkVendorFolder(reg, fs, np, folder) ==
    IF folder \in Range(reg)
    THEN [ret |-> FirstIndex(reg, folder), reg |-> reg]
    ELSE IF Stat(fs, np, folder, "go.mod")
    THEN [ret |-> -1, reg |-> reg]
    ELSE IF \E name \in DependencyControlSystem : Stat(fs, np, folder, name)
    THEN [ret |-> -1, reg |-> reg]
    ELSE IF Stat(fs, np, folder, "vendor")
    THEN [ret |-> Len(reg), reg |-> Append(reg, folder)]
    ELSE [ret |-> -1, reg |-> reg]

\* A clear that truncates without moving the last entry to the index.
clearVendorFolderDropLast(reg, index) ==
    IF index < 0 \/ index >= Len(reg) THEN reg ELSE SubSeq(reg, 1, Len(reg) - 1)

clearVendorFolder(reg, index) ==
    IF index < 0 \/ index >= Len(reg)
    THEN reg
    ELSE SubSeq([reg EXCEPT ![index + 1] = reg[Len(reg)]], 1, Len(reg) - 1)

---------------------------------------------------------------------------
(* The workspace module manager: collectMetadata and what it calls.        *)

\* filepath.Ext(name) == ".go", and strings.HasSuffix(name, "_test.go"), over the
\* file names of the universe.
HasGoExt(name) == name \in {"x.go", "x_test.go"}
IsTestFile(name) == name \in {"x_test.go"}

\* strings.Split(path, separator) of an absolute path: a leading empty element.
Split(path) == <<"">> \o path

\* filepath.Join(prefix, name): empty elements are ignored.
Join(prefix, name) == IF name = "" THEN prefix ELSE Append(prefix, name)

\* The subdirectories ioutil.ReadDir / readDirNames list for dir, in order.
SubDirs(dir) == SelectSeq(EntryOrder, LAMBDA n : Append(dir, n) \in Dirs)

\* The filepath.Walk of collectMetadata: directories holding go.mod, in visiting order.
\* A hidden or vendor directory is skipped; a directory that cannot be listed is
\* reported to the callback, which ignores the error, and is not descended into.
RECURSIVE WalkModules(_, _, _)
RECURSIVE WalkEntries(_, _, _, _)
WalkEntries(fs, np, dir, k) ==
    IF k > Len(EntryOrder)
    THEN <<>>
    ELSE LET n == EntryOrder[k]
             here == IF n = "go.mod" /\ "go.mod" \in fs[dir]
                     THEN <<dir>>
                     ELSE IF Append(dir, n) \in Dirs
                     THEN WalkModules(fs, np, Append(dir, n))
                     ELSE <<>>
         IN  here \o WalkEntries(fs, np, dir, k + 1)

WalkModules(fs, np, dir) ==
    IF IsHiddenName(Base(dir)) \/ Base(dir) = "vendor" \/ dir \in np
    THEN <<>>
    ELSE WalkEntries(fs, np, dir, 1)

existDepControlFile(fs, np, dir) ==
    \E name \in DependencyControlSystem : Stat(fs, np, dir, name)

\* collectUncoveredSrc: [unc, mod, err]. The err of a subdirectory overwrites the
\* err of the ones before it (err = e), and the partial lists are kept.
RECURSIVE collectUncoveredSrc(_, _, _)
RECURSIVE ScanSubDirs(_, _, _, _, _)
ScanSubDirs(fs, np, path, kids, acc) ==
    IF kids = <<>>
    THEN acc
    ELSE LET sub == collectUncoveredSrc(fs, np, Append(path, Head(kids)))
         IN  ScanSubDirs(fs, np, path, Tail(kids),
                         [unc |-> acc.unc \o sub.unc, mod |-> acc.mod \o sub.mod,
                          err |-> sub.err])

collectUncoveredSrc(fs, np, path) ==
    IF Stat(fs, np, path, "go.mod")
    THEN [unc |-> <<>>, mod |-> <<>>, err |-> FALSE]
    ELSE IF existDepControlFile(fs, np, path)
    THEN [unc |-> <<>>, mod |-> <<path>>, err |-> FALSE]
    ELSE IF Stat(fs, np, path, "vendor")
    THEN [unc |-> <<>>, mod |-> <<path>>, err |-> FALSE]
    ELSE IF path \in np
    THEN [unc |-> <<>>, mod |-> <<>>, err |-> TRUE]
    ELSE LET shouldBeCovered == \E name \in fs[path] : HasGoExt(name) /\ ~IsTestFile(name)
             kids == SelectSeq(SubDirs(path), LAMBDA n : ~IsHiddenName(n))
             sub  == ScanSubDirs(fs, np, path, kids,
                                 [unc |-> <<>>, mod |-> <<>>, err |-> FALSE])
         IN  [unc |-> IF shouldBeCovered THEN Append(sub.unc, Split(path)) ELSE sub.unc,
              mod |-> sub.mod,
              err |-> sub.err]

\* The loop without its break: it goes on after the first differing segment.
RECURSIVE LongestPrefixNoBreakLoop(_, _, _)
LongestPrefixNoBreakLoop(unc, i, acc) ==
    IF i >= Len(unc[1])
    THEN acc
    ELSE IF \E k \in 2..Len(unc) : Len(unc[k]) <= i \/ unc[k][i + 1] # unc[1][i + 1]
    THEN LongestPrefixNoBreakLoop(unc, i + 1, acc)
    ELSE LongestPrefixNoBreakLoop(unc, i + 1, Join(acc, unc[1][i + 1]))

longestPrefixNoBreak(unc) == LongestPrefixNoBreakLoop(unc, 0, <<>>)

\* The loop labelled DONE: the longest common prefix of the uncovered folders,
\* segment by segment, i counting from 0 as in the code.
RECURSIVE LongestPrefixLoop(_, _, _)
LongestPrefixLoop(unc, i, acc) ==
    IF i >= Len(unc[1])
    THEN acc
    ELSE IF \E k \in 2..Len(unc) : Len(unc[k]) <= i \/ unc[k][i + 1] # unc[1][i + 1]
    THEN acc
    ELSE LongestPrefixLoop(unc, i + 1, Join(acc, unc[1][i + 1]))

longestPrefix(unc) == LongestPrefixLoop(unc, 0, <<>>)

\* Lines 481-515 of collectMetadata: the walk, the scan and the synthetic root.
\* The walk's callback returns nil or SkipDir only, so filepath.Walk returns nil.
ScanPart(fs, np, folder) ==
    LET walked == WalkModules(fs, np, folder)
        sc     == collectUncoveredSrc(fs, np, folder)
        synth  == IF ~sc.err /\ Len(sc.unc) > 0 THEN <<longestPrefix(sc.unc)>> ELSE <<>>
    IN  [folder |-> folder, walked |-> walked, scanErr |-> sc.err, unc |-> sc.unc,
         needModScan |-> sc.mod, synth |-> synth,
         needMod |-> IF sc.err THEN <<>> ELSE sc.mod \o synth]

\* What the environment lets a module initialization do.
InitOutcomes == {"ok", "fail", "failwrite"}

\* constructGoModManually: [fs, err, wrote]. "fail": os.Create fails; "failwrite":
\* the file is created and WriteString fails.
constructGoModManually(fs, np, folder, outcome) ==
    IF Stat(fs, np, folder, "go.mod")
    THEN [fs |-> fs, err |-> FALSE, wrote |-> FALSE]
    ELSE IF outcome = "fail"
    THEN [fs |-> fs, err |-> TRUE, wrote |-> FALSE]
    ELSE [fs |-> [fs EXCEPT ![folder] = @ \cup {"go.mod"}],
          err |-> outcome = "failwrite", wrote |-> TRUE]

\* goModInit on the state st = [fs, cleanup, manual]: the go tool when installGoDeps
\* is set (it refuses a folder that has a go.mod), else the manual file, whose folder
\* is recorded in the manager's FolderNeedsCleanup before the file is written.
goModInit(st, np, installGoDeps, folder, outcome) ==
    IF installGoDeps
    THEN IF outcome = "ok" /\ ~Stat(st.fs, np, folder, "go.mod")
         THEN [st EXCEPT !.fs = [st.fs EXCEPT ![folder] = @ \cup {"go.mod"}], !.err = FALSE]
         ELSE [st EXCEPT !.err = TRUE]
    ELSE LET c == constructGoModManually(st.fs, np, folder, outcome)
         IN  [fs      |-> c.fs,
              cleanup |-> Append(st.cleanup, folder),
              manual  |-> IF c.wrote THEN st.manual \cup {folder} ELSE st.manual,
              err     |-> c.err]

\* Lines 517-523: every folder of folderNeedMod is initialized in turn; a failure is
\* logged and the loop continues with the next folder.
RECURSIVE InitLoop(_, _, _, _, _, _)
InitLoop(st, np, installGoDeps, needMod, outcome, acc) ==
    IF needMod = <<>>
    THEN [st |-> st, module |-> acc.module, attempted |-> acc.attempted]
    ELSE LET folder == Head(needMod)
             nx     == goModInit(st, np, installGoDeps, folder, outcome[folder])
         IN  InitLoop(nx, np, installGoDeps, Tail(needMod), outcome,
                      [module    |-> IF nx.err THEN acc.module ELSE Append(acc.module, folder),
                       attempted |-> Append(acc.attempted, folder)])

\* collectMetadata(folder) for a manager with the given flag and cleanup list; outcome
\* says what each module initialization meets. The returned error is always nil.
collectMetadata(fs, np, installGoDeps, cleanup, manual, folder, outcome) ==
    LET sp == ScanPart(fs, np, folder)
        lp == InitLoop([fs |-> fs, cleanup |-> cleanup, manual |-> manual, err |-> FALSE],
                       np, installGoDeps, sp.needMod, outcome,
                       [module |-> sp.walked, attempted |-> <<>>])
    IN  [scan |-> sp, err |-> FALSE, module |-> lp.module, attempted |-> lp.attempted,
         outcome |-> outcome, fs |-> lp.st.fs, cleanup |-> lp.st.cleanup,
         manual |-> lp.st.manual]

---------------------------------------------------------------------------
(* Initial values shared by the specifications.                            *)

MaxReg == 3

NoOp == [op |-> "none", folder |-> <<>>, index |-> 0, ret |-> 0, before |-> <<>>]

NoScan == [valid |-> FALSE]

NoFetch == [valid |-> FALSE]

NoReq == [valid |-> FALSE]

NoResp == [valid |-> FALSE]

\* DepsManager{}: the zero value.
ZeroDepsMgr == [installGoDeps |-> FALSE, moduleFolders |-> <<>>, FolderNeedsCleanup |-> <<>>]

\* s := &ElasticServer{}: no folder to clean up, no ManageDeps running.
DepsInit ==
    /\ pc = "idle"
    /\ calls = 0
    /\ folders = <<>>
    /\ ranged = <<>>
    /\ idx = 0
    /\ depsMgr = ZeroDepsMgr
    /\ FolderNeedsCleanup = <<>>
    /\ lastScan = NoScan
    /\ manualGoMod = {}
    /\ original = <<>>
    /\ scanned = <<>>
    /\ visited = <<>>
    /\ lastFetch = NoFetch
    /\ failedSinceClear = {}
    /\ atShutdown = [d \in Dirs |-> {}]

\* var folderUnderVendorMode []string
VendorInit ==
    /\ folderUnderVendorMode = <<>>
    /\ lastOp = NoOp

DefInit ==
    /\ req = NoReq
    /\ resp = NoResp

\* The goroutines that may call downloadDeps.
Callers == {1, 2}

\* A goroutine that is not inside downloadDeps.
NoCall == [pc |-> "idle", installGoDeps |-> FALSE, ranged |-> <<>>, idx |-> 0]

SharedInit ==
    /\ callers = [c \in Callers |-> NoCall]
    /\ overlapped = FALSE

---------------------------------------------------------------------------
(* SpecVendor: the three registry helpers called in any order on folders   *)
(* of any content.                                                         *)

VendorFolders == {WA, WB, WAC}

VendorKinds ==
    { {}, {"go.mod", "vendor"}, {"vendor", "x.go"}, {"vendor", "vendor/manifest"},
      {"Gopkg.lock", "x.go"} }

InitVendor ==
    /\ files \in {f \in [Dirs -> VendorKinds] : \A d \in Dirs \ VendorFolders : f[d] = {}}
    /\ noPerm = {}
    /\ VendorInit
    /\ DepsInit
    /\ DefInit
    /\ SharedInit

StoreCall(folder) ==
    /\ Len(folderUnderVendorMode) < MaxReg
    /\ folderUnderVendorMode' = storeVendorFolder(folderUnderVendorMode, folder)
    /\ lastOp' = [op |-> "store", folder |-> folder, index |-> 0, ret |-> 0,
                  before |-> folderUnderVendorMode]
    /\ UNCHANGED <<fsVars, depsVars, defVars, sharedVars>>

CheckCall(folder) ==
    LET r == checkVendorFolder(folderUnderVendorMode, files, noPerm, folder)
    IN  /\ Len(r.reg) <= MaxReg
        /\ folderUnderVendorMode' = r.reg
        /\ lastOp' = [op |-> "check", folder |-> folder, index |-> 0, ret |-> r.ret,
                      before |-> folderUnderVendorMode]
        /\ UNCHANGED <<fsVars, depsVars, defVars, sharedVars>>

ClearCall(index) ==
    /\ folderUnderVendorMode' = clearVendorFolder(folderUnderVendorMode, index)
    /\ lastOp' = [op |-> "clear", folder |-> <<>>, index |-> index, ret |-> 0,
                  before |-> folderUnderVendorMode]
    /\ UNCHANGED <<fsVars, depsVars, defVars, sharedVars>>

NextVendor ==
    \/ \E folder \in VendorFolders : StoreCall(folder)
    \/ \E folder \in VendorFolders : CheckCall(folder)
    \/ \E index \in -1..MaxReg : ClearCall(index)

SpecVendor == InitVendor /\ [][NextVendor]_vars

\* C9: clearVendorFolder(i) with 0 <= i < length shortens the registry by exactly one
\* and leaves exactly the other entries (as a multiset; the order may change); with
\* any other index the registry is unchanged; and removing the index of WB from
\* WA, WB, WAC leaves exactly WA and WAC.
C9_ClearRemovesExactlyOne ==
    lastOp.op = "clear" =>
        LET b == lastOp.before
            i == lastOp.index
            r == folderUnderVendorMode
        IN  /\ IF 0 <= i /\ i < Len(b)
               THEN /\ Len(r) = Len(b) - 1
                    /\ \A f \in Dirs :
                          Count(r, f) = Count(b, f) - (IF b[i + 1] = f THEN 1 ELSE 0)
               ELSE r = b
            /\ (b = <<WA, WB, WAC>> /\ i = checkVendorFolder(b, files, noPerm, WB).ret)
                  => (Len(r) = 2 /\ Range(r) = {WA, WAC})

C9_Witness ==
    /\ lastOp.op = "clear"
    /\ lastOp.before = <<WA, WB, WAC>>
    /\ lastOp.index = 1
    /\ folderUnderVendorMode = <<WA, WAC>>

\* C10: checkVendorFolder returns the first index of a registered folder whatever the
\* folder holds; else -1 without change when go.mod or a legacy manifest exists;
\* else appends the folder and returns the new last index when vendor exists; else
\* returns -1 without change.
C10_CheckOrder ==
    lastOp.op = "check" =>
        LET b   == lastOp.before
            f   == lastOp.folder
            r   == folderUnderVendorMode
            ret == lastOp.ret
        IN  IF \E i \in 1..Len(b) : b[i] = f
            THEN /\ r = b
                 /\ ret >= 0 /\ ret < Len(b)
                 /\ b[ret + 1] = f
                 /\ \A j \in 1..ret : b[j] # f
            ELSE IF "go.mod" \in files[f] \/ files[f] \cap DependencyControlSystem # {}
            THEN ret = -1 /\ r = b
            ELSE IF "vendor" \in files[f]
            THEN r = b \o <<f>> /\ ret = Len(r) - 1
            ELSE ret = -1 /\ r = b

C10_Witness ==
    /\ lastOp.op = "check"
    /\ Len(lastOp.before) = 3
    /\ lastOp.before[1] # lastOp.folder
    /\ lastOp.before[2] = lastOp.folder
    /\ lastOp.before[3] = lastOp.folder
    /\ "go.mod" \in files[lastOp.folder]
    /\ lastOp.ret = 1
    /\ folderUnderVendorMode = lastOp.before

---------------------------------------------------------------------------
(* Spec: the life of a session. ManageDeps is called on folder lists the   *)
(* client sends, one call at a time; Cleanup runs at shutdown.             *)

MaxFolders == 2

MaxCalls == 1

ClientFolders == {W, WA}

DepsKinds ==
    { {"x.go"}, {"go.mod", "go.sum", "x.go"}, {"Gopkg.lock", "x.go"}, {"vendor", "x.go"} }

FolderLists == UNION {[1..n -> ClientFolders] : n \in 1..MaxFolders}

InitDeps ==
    /\ files \in {f \in [Dirs -> DepsKinds \cup {{}}] :
                     /\ f[W] \in {{"x.go"}, {"go.mod", "go.sum", "x.go"}}
                     /\ f[WA] \in {{"x.go"}, {"Gopkg.lock", "x.go"}}
                     /\ f[WB] = {"vendor", "x.go"}
                     /\ \A d \in Dirs \ {W, WA, WB} : f[d] = {}}
    /\ noPerm = {}
    /\ VendorInit
    /\ DepsInit
    /\ DefInit
    /\ SharedInit

ScanRecord(cm, installGoDeps, fs) ==
    [valid |-> TRUE, folder |-> cm.scan.folder, walked |-> cm.scan.walked,
     scanErr |-> cm.scan.scanErr, unc |-> cm.scan.unc, needModScan |-> cm.scan.needModScan,
     synth |-> cm.scan.synth, needMod |-> cm.scan.needMod, attempted |-> cm.attempted,
     outcome |-> cm.outcome, module |-> cm.module, err |-> cm.err,
     installGoDeps |-> installGoDeps, filesBefore |-> fs]

\* ManageDeps, lines 170-179: the option is taken from the session or from the
\* request's options, and a fresh DepsManager is made. The range loop of line 180
\* iterates over the slice as it is now.
ManageDepsStart(fl, sessionOpt, opt) ==
    /\ pc = "idle"
    /\ calls < MaxCalls
    /\ calls' = calls + 1
    /\ depsMgr' = [ZeroDepsMgr EXCEPT !.installGoDeps = sessionOpt \/ opt = "true"]
    /\ folders' = fl
    /\ ranged' = fl
    /\ idx' = 0
    /\ original' = fl
    /\ scanned' = <<>>
    /\ visited' = <<>>
    /\ pc' = "run"
    /\ UNCHANGED <<fsVars, vendorVars, defVars, sharedVars, FolderNeedsCleanup, lastScan, manualGoMod,
                   lastFetch, failedSinceClear, atShutdown>>

\* run(root), lines 425-442: the module folders other than the root are added to the
\* manager's moduleFolders.
run(mgr, cm, root) ==
    [mgr EXCEPT !.moduleFolders = @ \o SelectSeq(cm.module, LAMBDA m : m # root),
                !.FolderNeedsCleanup = cm.cleanup]

\* One iteration of the loop of lines 180-185: run on the folder, then the whole of
\* moduleFolders is appended to *folders.
RunStep ==
    /\ pc = "run"
    /\ idx < Len(ranged)
    /\ LET folder == ranged[idx + 1]
           sp     == ScanPart(files, noPerm, folder)
       IN  \E outcome \in [Range(sp.needMod) -> InitOutcomes] :
              LET cm  == collectMetadata(files, noPerm, depsMgr.installGoDeps,
                                         depsMgr.FolderNeedsCleanup, manualGoMod, folder,
                                         outcome)
                  mgr == run(depsMgr, cm, folder)
              IN  /\ depsMgr' = mgr
                  /\ folders' = folders \o mgr.moduleFolders
                  /\ files' = cm.fs
                  /\ manualGoMod' = cm.manual
                  /\ lastScan' = ScanRecord(cm, depsMgr.installGoDeps, files)
                  /\ scanned' = Append(scanned, folder)
    /\ idx' = idx + 1
    /\ UNCHANGED <<calls, noPerm, vendorVars, defVars, sharedVars, pc, ranged, FolderNeedsCleanup, original,
                   visited, lastFetch, failedSinceClear, atShutdown>>

\* Line 186: the loop is over and downloadDeps is called on *folders as it is now.
DownloadDepsCall ==
    /\ pc = "run"
    /\ idx = Len(ranged)
    /\ pc' = "download"
    /\ ranged' = folders
    /\ idx' = 0
    /\ lastScan' = NoScan
    /\ UNCHANGED <<calls, fsVars, vendorVars, defVars, sharedVars, folders, depsMgr, FolderNeedsCleanup,
                   manualGoMod, original, scanned, visited, lastFetch,
                   failedSinceClear, atShutdown>>

\* A loop body that leaves the loop after a failed fetch.
DownloadStepBreak(fetchOk) ==
    /\ pc = "download"
    /\ depsMgr.installGoDeps
    /\ idx < Len(ranged)
    /\ LET dir == ranged[idx + 1]
           chk == checkVendorFolder(folderUnderVendorMode, files, noPerm, dir)
           fetch == chk.ret < 0
       IN  /\ folderUnderVendorMode' =
                 IF fetch /\ ~fetchOk THEN storeVendorFolder(chk.reg, dir) ELSE chk.reg
           /\ lastFetch' = [valid |-> TRUE, dir |-> dir, check |-> chk.ret,
                            fetched |-> fetch, ok |-> fetchOk,
                            wasFailed |-> dir \in failedSinceClear]
           /\ failedSinceClear' =
                 IF fetch /\ ~fetchOk THEN failedSinceClear \cup {dir} ELSE failedSinceClear
           /\ visited' = Append(visited, dir)
           /\ idx' = IF fetch /\ ~fetchOk THEN Len(ranged) ELSE idx + 1
    /\ UNCHANGED <<calls, fsVars, defVars, sharedVars, lastOp, pc, folders, ranged, depsMgr,
                   FolderNeedsCleanup, lastScan, manualGoMod, original, scanned, atShutdown>>

\* One iteration of the loop of lines 448-461: a folder for which checkVendorFolder
\* answers an index is skipped; else go mod download runs in it and, when that fails,
\* the folder is stored in the registry.
DownloadStep(fetchOk) ==
    /\ pc = "download"
    /\ depsMgr.installGoDeps
    /\ idx < Len(ranged)
    /\ LET dir == ranged[idx + 1]
           chk == checkVendorFolder(folderUnderVendorMode, files, noPerm, dir)
           fetch == chk.ret < 0
       IN  /\ folderUnderVendorMode' =
                 IF fetch /\ ~fetchOk THEN storeVendorFolder(chk.reg, dir) ELSE chk.reg
           /\ lastFetch' = [valid |-> TRUE, dir |-> dir, check |-> chk.ret,
                            fetched |-> fetch, ok |-> fetchOk,
                            wasFailed |-> dir \in failedSinceClear]
           /\ failedSinceClear' =
                 IF fetch /\ ~fetchOk THEN failedSinceClear \cup {dir} ELSE failedSinceClear
           /\ visited' = Append(visited, dir)
           /\ idx' = idx + 1
    /\ UNCHANGED <<calls, fsVars, defVars, sharedVars, lastOp, pc, folders, ranged, depsMgr,
                   FolderNeedsCleanup, lastScan, manualGoMod, original, scanned, atShutdown>>

\* downloadDeps returns, at once when installGoDeps is not set (line 445) and else
\* after the last folder, and ManageDeps returns with it: its DepsManager is a local
\* and nothing of it is kept; the caller takes the folder list. The records of the
\* call are dropped with it.
DownloadDepsReturn ==
    /\ pc = "download"
    /\ ~depsMgr.installGoDeps \/ idx = Len(ranged)
    /\ pc' = "idle"
    /\ depsMgr' = ZeroDepsMgr
    /\ folders' = <<>>
    /\ ranged' = <<>>
    /\ idx' = 0
    /\ lastFetch' = NoFetch
    /\ original' = <<>>
    /\ scanned' = <<>>
    /\ visited' = <<>>
    /\ UNCHANGED <<calls, fsVars, vendorVars, defVars, sharedVars, FolderNeedsCleanup, lastScan,
                   manualGoMod, failedSinceClear, atShutdown>>

\* The view creation drops a folder from the registry.
ClearVendorFolderCall(index) ==
    /\ pc = "idle"
    /\ folderUnderVendorMode' = clearVendorFolder(folderUnderVendorMode, index)
    /\ failedSinceClear' = {}
    /\ UNCHANGED <<calls, fsVars, defVars, sharedVars, lastOp, pc, folders, ranged, idx, depsMgr,
                   FolderNeedsCleanup, lastScan, manualGoMod, original, scanned, visited,
                   lastFetch, atShutdown>>

\* Line 190: the list Cleanup ranges over.
CleanupList == FolderNeedsCleanup

\* A Cleanup that sweeps every folder, whatever the list holds.
CleanupFilesEveryFolder(fs, np, list) ==
    [d \in Dirs |-> IF d \notin np THEN fs[d] \ {"go.mod", "go.sum"} ELSE fs[d]]

\* Cleanup, lines 189-200: go.mod and go.sum are removed from every listed folder in
\* which os.Stat finds them (os.Remove taken to succeed).
CleanupFiles(fs, np, list) ==
    [d \in Dirs |->
        IF d \in Range(list) /\ d \notin np THEN fs[d] \ {"go.mod", "go.sum"} ELSE fs[d]]

Cleanup ==
    /\ pc = "idle"
    /\ atShutdown' = files
    /\ files' = CleanupFiles(files, noPerm, CleanupList)
    /\ pc' = "shutdown"
    /\ UNCHANGED <<calls, noPerm, vendorVars, defVars, sharedVars, folders, ranged, idx, depsMgr,
                   FolderNeedsCleanup, lastScan, manualGoMod, original, scanned, visited,
                   lastFetch, failedSinceClear>>

Next ==
    \/ \E fl \in FolderLists, sessionOpt \in BOOLEAN, opt \in {"none", "true", "false"} :
          ManageDepsStart(fl, sessionOpt, opt)
    \/ RunStep
    \/ DownloadDepsCall
    \/ \E fetchOk \in BOOLEAN : DownloadStep(fetchOk)
    \/ DownloadDepsReturn
    \/ Cleanup

Spec == InitDeps /\ [][Next]_vars

---------------------------------------------------------------------------
(* SpecDownload: downloadDeps called again and again, on any folder list,  *)
(* by a manager with any installGoDeps; between calls the view creation    *)
(* may call clearVendorFolder.                                             *)

DownloadFolders == {WA, WB}

DownloadKinds == { {"x.go"}, {"go.mod", "go.sum", "x.go"}, {"vendor", "x.go"} }

DownloadLists == UNION {[1..n -> DownloadFolders] : n \in 1..MaxFolders}

InitDownload ==
    /\ files \in {f \in [Dirs -> DownloadKinds \cup {{}}] :
                     /\ \A d \in DownloadFolders : f[d] # {}
                     /\ \A d \in Dirs \ DownloadFolders : f[d] = {}}
    /\ noPerm = {}
    /\ VendorInit
    /\ DepsInit
    /\ DefInit
    /\ SharedInit

DownloadDepsStart(fl, installGoDeps) ==
    /\ pc = "idle"
    /\ depsMgr' = [ZeroDepsMgr EXCEPT !.installGoDeps = installGoDeps]
    /\ folders' = fl
    /\ ranged' = fl
    /\ idx' = 0
    /\ original' = fl
    /\ pc' = "download"
    /\ UNCHANGED <<calls, fsVars, vendorVars, defVars, sharedVars, FolderNeedsCleanup, lastScan,
                   manualGoMod, scanned, visited, lastFetch, failedSinceClear, atShutdown>>

NextDownload ==
    \/ \E fl \in DownloadLists, installGoDeps \in BOOLEAN : DownloadDepsStart(fl, installGoDeps)
    \/ \E fetchOk \in BOOLEAN : DownloadStep(fetchOk)
    \/ DownloadDepsReturn
    \/ \E index \in -1..Len(folderUnderVendorMode) : ClearVendorFolderCall(index)

SpecDownload == InitDownload /\ [][NextDownload]_vars

---------------------------------------------------------------------------
(* SpecScan: collectMetadata called once on a folder of any tree, some     *)
(* directory of which may be closed to the server.                         *)

ScanFolders == {W, WA}

InitScan ==
    /\ files \in {f \in [Dirs -> Kinds] :
                     /\ f[W] \in {{}, {"x.go"}, {"go.mod", "go.sum", "x.go"}}
                     /\ f[WA] \in {{}, {"x.go"}, {"x_test.go"}, {"Gopkg.lock", "x.go"}}
                     /\ f[WB] \in {{}, {"x.go"}, {"go.mod", "go.sum", "x.go"}, {"vendor", "x.go"}}
                     /\ f[WAC] \in {{}, {"x.go"}, {"go.mod", "go.sum", "x.go"}}
                     /\ f[WBC] \in {{}, {"x.go"}, {"Gopkg.lock", "x.go"}}
                     /\ f[WH] \in {{}, {"go.mod", "go.sum", "x.go"}}}
    /\ noPerm \in {{}, {WA}, {WB}, {WBC}}
    /\ VendorInit
    /\ DepsInit
    /\ DefInit
    /\ SharedInit

CollectMetadataCall(folder, installGoDeps) ==
    /\ pc = "idle"
    /\ LET sp == ScanPart(files, noPerm, folder)
       IN  \E outcome \in [Range(sp.needMod) -> InitOutcomes] :
              LET cm == collectMetadata(files, noPerm, installGoDeps, <<>>, manualGoMod,
                                        folder, outcome)
              IN  /\ depsMgr' = [installGoDeps |-> installGoDeps, moduleFolders |-> <<>>,
                                 FolderNeedsCleanup |-> cm.cleanup]
                  /\ files' = cm.fs
                  /\ manualGoMod' = cm.manual
                  /\ lastScan' = ScanRecord(cm, installGoDeps, files)
    /\ pc' = "scanned"
    /\ UNCHANGED <<calls, noPerm, vendorVars, defVars, sharedVars, folders, ranged, idx,
                   FolderNeedsCleanup, original, scanned, visited, lastFetch,
                   failedSinceClear, atShutdown>>

NextScan ==
    \E folder \in ScanFolders, installGoDeps \in BOOLEAN : CollectMetadataCall(folder, installGoDeps)

SpecScan == InitScan /\ [][NextScan]_vars

---------------------------------------------------------------------------
(* EDefinition.  File names are strings, modelled as sequences of          *)
(* characters, so that strings.HasPrefix is the string prefix it is and    *)
(* not a containment of paths; identifiers and qualified names are strings. *)

\* strings.HasPrefix
HasPrefix(s, prefix) == IsPrefix(prefix, s)

\* strings.TrimPrefix
TrimPrefix(s, prefix) ==
    IF HasPrefix(s, prefix) THEN SubSeq(s, Len(prefix) + 1, Len(s)) ELSE s

\* strings.TrimSuffix
TrimSuffix(s, suffix) ==
    IF Len(suffix) <= Len(s) /\ SubSeq(s, Len(s) - Len(suffix) + 1, Len(s)) = suffix
    THEN SubSeq(s, 1, Len(s) - Len(suffix))
    ELSE s

\* strings.Count for a separator of one character
CountChar(s, c) == Cardinality({k \in 1..Len(s) : s[k] = c})

\* strings.LastIndex for a separator of one character (1-based, 0 when absent)
LastIndexChar(s, c) ==
    IF \E k \in 1..Len(s) : s[k] = c
    THEN CHOOSE k \in 1..Len(s) : s[k] = c /\ \A j \in (k + 1)..Len(s) : s[j] # c
    ELSE 0

\* strings.SplitAfter(s, c): the pieces of s, each but the last ending with c.
RECURSIVE SplitAfter(_, _)
SplitAfter(s, c) ==
    IF \E k \in 1..Len(s) : s[k] = c
    THEN LET k == CHOOSE k \in 1..Len(s) : s[k] = c /\ \A j \in 1..(k - 1) : s[j] # c
         IN  <<SubSeq(s, 1, k)>> \o SplitAfter(SubSeq(s, k + 1, Len(s)), c)
    ELSE <<s>>

\* strings.Split(s, c)[0]: s up to its first c.
FirstPiece(s, c) ==
    IF \E k \in 1..Len(s) : s[k] = c
    THEN LET k == CHOOSE k \in 1..Len(s) : s[k] = c /\ \A j \in 1..(k - 1) : s[j] # c
         IN  SubSeq(s, 1, k - 1)
    ELSE s

DigitChars == {"0", "1", "2", "3", "4", "5", "6", "7", "8", "9"}

IdentChars ==
    DigitChars \cup {"a", "b", "c", "d", "e", "f", "g", "h", "i", "j", "k", "l", "m", "n", "o",
                     "p", "q", "r", "s", "t", "u", "v", "w", "x", "y", "z", "-"}

\* A dot-separated list of non-empty identifiers; numeric identifiers of a
\* pre-release carry no leading zero.
IdentsOk(s, numeric) ==
    /\ Len(s) > 0
    /\ s[1] # "." /\ s[Len(s)] # "."
    /\ \A k \in 1..Len(s) : s[k] \in IdentChars \cup {"."}
    /\ \A k \in 1..(Len(s) - 1) : ~(s[k] = "." /\ s[k + 1] = ".")
    /\ numeric =>
          \A i \in 1..Len(s) : \A j \in (i + 1)..Len(s) :
              (/\ (i = 1 \/ s[i - 1] = ".")
               /\ (j = Len(s) \/ s[j + 1] = ".")
               /\ \A k \in i..j : s[k] \in DigitChars) => s[i] # "0"

\* semver.IsValid: vMAJOR[.MINOR[.PATCH[-PRERELEASE][+BUILD]]]
IsValid(v) ==
    LET n == Len(v)
        IntEnd(i) == CHOOSE j \in i..(n + 1) :
                        /\ \A k \in i..(j - 1) : v[k] \in DigitChars
                        /\ (j = n + 1 \/ v[j] \notin DigitChars)
        IntOk(i) == i <= n /\ IntEnd(i) > i /\ (v[i] = "0" => IntEnd(i) = i + 1)
        Rest(c) ==
            LET rest == SubSeq(v, c, n)
                plus == IF \E k \in 1..Len(rest) : rest[k] = "+"
                        THEN CHOOSE k \in 1..Len(rest) :
                                rest[k] = "+" /\ \A j \in 1..(k - 1) : rest[j] # "+"
                        ELSE Len(rest) + 1
                pre  == SubSeq(rest, 1, plus - 1)
                bld  == SubSeq(rest, plus, Len(rest))
            IN  /\ pre # <<>> => (pre[1] = "-" /\ IdentsOk(Tail(pre), TRUE))
                /\ bld # <<>> => IdentsOk(Tail(bld), FALSE)
    IN  /\ n >= 2
        /\ v[1] = "v"
        /\ IntOk(2)
        /\ LET a == IntEnd(2)
           IN  \/ a = n + 1
               \/ /\ v[a] = "."
                  /\ IntOk(a + 1)
                  /\ LET b == IntEnd(a + 1)
                     IN  \/ b = n + 1
                         \/ /\ v[b] = "."
                            /\ IntOk(b + 1)
                            /\ Rest(IntEnd(b + 1))

\* getPkgVersionFast, lines 382-396
RECURSIVE ValidVersions(_, _)
ValidVersions(strs, i) ==
    IF i > Len(strs) THEN <<>>
    ELSE LET first == FirstPiece(strs[i], "/")
         IN  (IF IsValid(first) THEN <<first>> ELSE <<>>) \o ValidVersions(strs, i + 1)

\* A variant that takes the first valid version instead of giving up on several.
getPkgVersionFastFirst(loc) ==
    LET validVersion == ValidVersions(SplitAfter(loc, "@"), 2)
    IN  IF Len(validVersion) = 0 THEN <<>> ELSE validVersion[1]

getPkgVersionFast(loc) ==
    LET validVersion == ValidVersions(SplitAfter(loc, "@"), 2)
    IN  IF Len(validVersion) # 1 THEN <<>> ELSE validVersion[1]

\* getPkgVersionSlow, lines 375-377: always this error.
getPkgVersionSlow == "for now, there is no proper and efficient API to get the revision"

Incompatible == <<"+", "i", "n", "c", "o", "m", "p", "a", "t", "i", "b", "l", "e">>

\* getPkgVersion, lines 353-370: the locator with its Version set, or untouched.
getPkgVersion(pkgMod, dir, pkgLoc, loc) ==
    LET rev == getPkgVersionFast(TrimPrefix(loc, pkgMod \o dir))
    IN  IF rev = <<>> /\ getPkgVersionSlow # "" THEN pkgLoc
        ELSE IF CountChar(rev, "-") = 2
             THEN LET t == TrimSuffix(rev, Incompatible)
                  IN  [pkgLoc EXCEPT !.Version = SubSeq(t, LastIndexChar(t, "-") + 1, Len(t))]
             ELSE [pkgLoc EXCEPT !.Version = rev]

\* protocol.PackageLocator{}
EmptyLocator == [Name |-> "", RepoURI |-> "", Version |-> <<>>]

\* collectPkgMetadata, lines 330-349.  pkg is the declaring package ("" for no
\* package), repoRoot what vcs.RepoRootForImportPath answers ("" for an error).
collectPkgMetadata(pkg, dir, loc, env) ==
    IF pkg.Name = "" THEN EmptyLocator
    ELSE LET pkgLocator == [Name |-> pkg.Name, RepoURI |-> pkg.Path, Version |-> <<>>]
         IN  IF HasPrefix(loc, dir) \/ HasPrefix(loc, env.goRoot) THEN pkgLocator
             ELSE LET withVersion == getPkgVersion(env.pkgMod, dir, pkgLocator, loc)
                  IN  IF env.repoRoot # ""
                      THEN [withVersion EXCEPT !.RepoURI = env.repoRoot]
                      ELSE withVersion

\* protocol.SymbolKind(0)
NoKind == "0"

\* getSymbolKind, lines 203-248
getSymbolKind(declObj) ==
    CASE declObj.obj = "Const" -> "Constant"
      [] declObj.obj = "Var" -> IF declObj.isField THEN "Field" ELSE "Variable"
      [] declObj.obj = "Nil" -> "Null"
      [] declObj.obj = "PkgName" -> "Package"
      [] declObj.obj = "Func" -> IF ~declObj.hasRecv THEN "Function" ELSE "Method"
      [] declObj.obj = "TypeName" ->
            (CASE declObj.underlying = "Struct" -> "Struct"
               [] declObj.underlying = "Interface" -> "Interface"
               [] declObj.underlying = "Slice" -> "Array"
               [] declObj.underlying = "Array" -> "Array"
               [] declObj.underlying = "Basic" ->
                     (CASE declObj.info = "IsNumeric" -> "Number"
                        [] declObj.info = "IsBoolean" -> "Boolean"
                        [] declObj.info = "IsString" -> "String"
                        [] OTHER -> NoKind)
               [] OTHER -> NoKind)
      [] OTHER -> NoKind

\* An AST node of the path around the declaration: its type, the names it declares
\* (TypeSpec, Field, ValueSpec) and, for a FuncDecl, its receiver.
Node(type, names) == [type |-> type, names |-> names, recv |-> "none", recvName |-> ""]

Method(recv, recvName) == [type |-> "FuncDecl", names |-> <<>>, recv |-> recv, recvName |-> recvName]

\* A variant of the loop that takes the last of several co-declared names.
RECURSIVE QNameLoopLastName(_, _, _)
QNameLoopLastName(astPath, j, qname) ==
    IF j > Len(astPath) THEN qname
    ELSE LET n == astPath[j]
             father == IF j < Len(astPath) THEN astPath[j + 1] ELSE Node("none", <<>>)
             next ==
                CASE n.type = "StructType" ->
                        (CASE father.type = "TypeSpec" -> father.names[1] \o "." \o qname
                           [] father.type \in {"Field", "ValueSpec"} ->
                                 IF Len(father.names) # 0
                                 THEN father.names[Len(father.names)] \o "." \o qname
                                 ELSE qname
                           [] OTHER -> qname)
                  [] n.type = "InterfaceType" ->
                        IF father.type = "TypeSpec"
                        THEN father.names[1] \o "." \o qname
                        ELSE qname
                  [] n.type = "FuncDecl" ->
                        IF n.recv # "none"
                        THEN (IF n.recv \in {"StarExpr", "Ident"} THEN n.recvName ELSE "")
                             \o "." \o qname
                        ELSE qname
                  [] OTHER -> qname
         IN  QNameLoopLastName(astPath, j + 1, next)

\* The loop of getQName, lines 270-321: j is the position of n in astPath, its father
\* the next node of the path.
RECURSIVE QNameLoop(_, _, _)
QNameLoop(astPath, j, qname) ==
    IF j > Len(astPath) THEN qname
    ELSE LET n == astPath[j]
             father == IF j < Len(astPath) THEN astPath[j + 1] ELSE Node("none", <<>>)
             next ==
                CASE n.type = "StructType" ->
                        (CASE father.type = "TypeSpec" -> father.names[1] \o "." \o qname
                           [] father.type \in {"Field", "ValueSpec"} ->
                                 IF Len(father.names) # 0
                                 THEN father.names[1] \o "." \o qname
                                 ELSE qname
                           [] OTHER -> qname)
                  [] n.type = "InterfaceType" ->
                        IF father.type = "TypeSpec"
                        THEN father.names[1] \o "." \o qname
                        ELSE qname
                  [] n.type = "FuncDecl" ->
                        IF n.recv # "none"
                        THEN (IF n.recv \in {"StarExpr", "Ident"} THEN n.recvName ELSE "")
                             \o "." \o qname
                        ELSE qname
                  [] OTHER -> qname
         IN  QNameLoop(astPath, j + 1, next)

\* getQName, lines 256-326
getQName(parseOk, declObj, kind) ==
    IF kind = "Package" THEN declObj.name
    ELSE IF ~parseOk THEN ""
    ELSE LET qname == QNameLoop(declObj.astPath, 2, declObj.name)
         IN  IF declObj.pkg.Name = "" THEN qname
             ELSE declObj.pkg.Name \o "." \o qname

\* protocol.NewURI of span.NewURI of a file name
NewURI(filename) == <<"file://">> \o filename

\* A same-view test that asks for the folder itself.
SameViewExact(declFilename, folderFilename) == declFilename = folderFilename

\* The test of line 93.
SameView(declFilename, folderFilename) == HasPrefix(declFilename, folderFilename)

\* EDefinition, lines 77-118.  r is the request together with what the view, the
\* type checker and the environment answer for it; the answer records the helpers
\* that were invoked.
EDefinition(r) ==
    LET fail(e, called) == [valid |-> TRUE, err |-> e, results |-> <<>>, calls |-> called]
    IN  IF ~r.getFileOk THEN fail("GetFile", {})
        ELSE IF ~r.identOk THEN fail("Identifier", {})
        ELSE IF ~r.rangeOk THEN fail("Range", {})
        ELSE IF SameView(r.declFilename, r.folder)
        THEN [valid |-> TRUE, err |-> "", calls |-> {},
              results |-> <<[hasLoc |-> TRUE, URI |-> NewURI(r.declFilename),
                             Range |-> r.declRange, Qname |-> "", Kind |-> NoKind,
                             Package |-> EmptyLocator]>>]
        ELSE IF ~r.declFileOk THEN fail("GetFile", {})
        ELSE LET kind == getSymbolKind(r.declObj)
             IN  IF kind = NoKind
                 THEN fail("no corresponding symbol kind for '" \o r.declObj.name \o "'",
                           {"getSymbolKind"})
                 ELSE [valid |-> TRUE, err |-> "",
                       calls |-> {"getSymbolKind", "getQName", "collectPkgMetadata"},
                       results |-> <<[hasLoc |-> FALSE, URI |-> <<>>, Range |-> "",
                                      Qname |-> getQName(r.parseOk, r.declObj, kind),
                                      Kind |-> kind,
                                      Package |-> collectPkgMetadata(r.declObj.pkg, r.folder,
                                                                     r.declFilename, r.env)]>>]

---------------------------------------------------------------------------
(* SpecDef: EDefinition requests from a view on /w/a or /w, for            *)
(* declarations in files inside and outside the view.                      *)

FolderW == <<"/", "w">>

FolderA == <<"/", "w", "/", "a">>

XGo == <<"/", "x", ".", "g", "o">>

GoRoot == <<"/", "g">>

PkgMod == <<"/", "m">>

V123 == <<"v", "1", ".", "2", ".", "3">>

VPseudo == <<"v", "0", ".", "0", ".", "0", "-", "1", "-", "a", "b">>

DeclFilenames ==
    { FolderA \o XGo,
      FolderA \o <<"b">> \o XGo,
      FolderW \o <<"/", "b">> \o XGo,
      FolderW \o XGo,
      GoRoot \o XGo,
      PkgMod \o <<"/", "p", "@">> \o V123 \o XGo,
      PkgMod \o <<"/", "p", "@">> \o VPseudo \o XGo,
      PkgMod \o <<"/", "p", "@">> \o V123 \o <<"/", "q", "@">> \o V123 \o XGo }

PkgP == [Name |-> "p", Path |-> "github.com/o/p"]

NoPkg == [Name |-> "", Path |-> ""]

Obj(obj, name, pkg, astPath) ==
    [obj |-> obj, name |-> name, pkg |-> pkg, astPath |-> astPath,
     isField |-> FALSE, hasRecv |-> FALSE, underlying |-> "", info |-> ""]

TopLevel(names) == <<Node("Ident", <<>>), Node("ValueSpec", names), Node("GenDecl", <<>>),
                     Node("File", <<>>)>>

TypeDecl(name) == <<Node("Ident", <<>>), Node("TypeSpec", <<name>>), Node("GenDecl", <<>>),
                    Node("File", <<>>)>>

InStruct(name) == <<Node("Ident", <<>>), Node("Field", <<name>>), Node("FieldList", <<>>),
                    Node("StructType", <<>>)>>

TypeNameObj(name, underlying, info) ==
    [Obj("TypeName", name, PkgP, TypeDecl(name)) EXCEPT !.underlying = underlying, !.info = info]

\* What the type checker may hand over as the declared object.
DeclObjs ==
    { Obj("Const", "C", PkgP, TopLevel(<<"C">>)),
      Obj("Var", "v", PkgP, TopLevel(<<"v">>)),
      [Obj("Var", "f", PkgP, InStruct("f") \o Tail(TypeDecl("T"))) EXCEPT !.isField = TRUE],
      [Obj("Var", "x", PkgP,
           InStruct("x") \o <<Node("Field", <<"a", "b">>), Node("FieldList", <<>>),
                              Node("StructType", <<>>)>> \o Tail(TypeDecl("T")))
         EXCEPT !.isField = TRUE],
      Obj("Var", "l", PkgP,
          <<Node("Ident", <<>>), Node("AssignStmt", <<>>), Node("BlockStmt", <<>>),
            Node("FuncDecl", <<>>), Node("File", <<>>)>>),
      Obj("Nil", "nil", NoPkg, <<Node("Ident", <<>>), Node("File", <<>>)>>),
      Obj("PkgName", "q", PkgP, <<Node("Ident", <<>>), Node("ImportSpec", <<>>),
                                  Node("GenDecl", <<>>), Node("File", <<>>)>>),
      Obj("Func", "F", PkgP, <<Node("Ident", <<>>), Node("FuncDecl", <<>>), Node("File", <<>>)>>),
      [Obj("Func", "m", PkgP, <<Node("Ident", <<>>), Method("StarExpr", "T"),
                                Node("File", <<>>)>>) EXCEPT !.hasRecv = TRUE],
      [Obj("Func", "i", PkgP,
           <<Node("Ident", <<>>), Node("Field", <<"i">>), Node("FieldList", <<>>),
             Node("InterfaceType", <<>>)>> \o Tail(TypeDecl("I"))) EXCEPT !.hasRecv = TRUE],
      Obj("Label", "L", PkgP,
          <<Node("Ident", <<>>), Node("LabeledStmt", <<>>), Node("BlockStmt", <<>>),
            Node("FuncDecl", <<>>), Node("File", <<>>)>>),
      TypeNameObj("T", "Struct", ""),
      TypeNameObj("I", "Interface", ""),
      TypeNameObj("S", "Slice", ""),
      TypeNameObj("N", "Basic", "IsNumeric"),
      TypeNameObj("B", "Basic", "IsBoolean"),
      TypeNameObj("Z", "Basic", "IsString"),
      TypeNameObj("U", "Basic", ""),
      TypeNameObj("M", "Map", "") }

Envs == [goRoot : {GoRoot}, pkgMod : {PkgMod}, repoRoot : {"", "https://github.com/o/p"}]

Requests ==
    [folder : {FolderW, FolderA}, declFilename : DeclFilenames, declRange : {"r1", "r2"},
     getFileOk : BOOLEAN, identOk : BOOLEAN, rangeOk : BOOLEAN, declFileOk : BOOLEAN,
     parseOk : BOOLEAN, declObj : DeclObjs, env : Envs]

InitDef ==
    /\ files = [d \in Dirs |-> {}]
    /\ noPerm = {}
    /\ VendorInit
    /\ DepsInit
    /\ DefInit
    /\ SharedInit

\* The handler runs on a request and its answer is held until it is sent.
EDefinitionCall ==
    /\ ~resp.valid
    /\ \E r \in Requests :
          /\ req' = r
          /\ resp' = EDefinition(r)
    /\ UNCHANGED <<fsVars, vendorVars, depsVars, sharedVars>>

\* The answer goes out; the server keeps nothing of the request.
EDefinitionReturn ==
    /\ resp.valid
    /\ req' = NoReq
    /\ resp' = NoResp
    /\ UNCHANGED <<fsVars, vendorVars, depsVars, sharedVars>>

NextDef ==
    \/ EDefinitionCall
    \/ EDefinitionReturn

SpecDef == InitDef /\ [][NextDef]_vars

---------------------------------------------------------------------------
(* Full and constructDetailSymbol.                                         *)

\* A variant that only looks at the start of the string.
ContainsAtStart(s, substr) == HasPrefix(s, substr)

\* strings.Contains
Contains(s, substr) ==
    \E i \in 1..(Len(s) - Len(substr) + 1) : SubSeq(s, i, i + Len(substr) - 1) = substr

\* folderSkip, lines 120-122: separator + "vendor" + separator
folderSkip == <<"/", "v", "e", "n", "d", "o", "r", "/">>

\* Line 605: the qualified name of an entry.
DetailQname(pkgName, qnamePrefix) == pkgName \o "." \o qnamePrefix

\* A variant that emits the children of a symbol before the symbol.
RECURSIVE flattenChildrenFirst(_, _, _, _, _)
flattenChildrenFirst(symbols, prefix, container, uri, pkgLocator) ==
    IF symbols = <<>> THEN <<>>
    ELSE LET symbol == Head(symbols)
             qnamePrefix == IF prefix # "" THEN prefix \o "." \o symbol.Name ELSE symbol.Name
             entry == [Symbol |-> [Name |-> symbol.Name, Kind |-> symbol.Kind,
                                   ContainerName |-> container,
                                   Location |-> [URI |-> uri, Range |-> symbol.SelectionRange]],
                       Qname |-> DetailQname(pkgLocator.Name, qnamePrefix),
                       Package |-> pkgLocator]
         IN  flattenChildrenFirst(symbol.Children, qnamePrefix, symbol.Name, uri, pkgLocator)
             \o <<entry>>
             \o flattenChildrenFirst(Tail(symbols), prefix, container, uri, pkgLocator)

\* flattenDocumentSymbol, lines 585-612: the entries appended to detailSyms.
RECURSIVE flattenDocumentSymbol(_, _, _, _, _)
flattenDocumentSymbol(symbols, prefix, container, uri, pkgLocator) ==
    IF symbols = <<>> THEN <<>>
    ELSE LET symbol == Head(symbols)
             qnamePrefix == IF prefix # "" THEN prefix \o "." \o symbol.Name ELSE symbol.Name
             entry == [Symbol |-> [Name |-> symbol.Name, Kind |-> symbol.Kind,
                                   ContainerName |-> container,
                                   Location |-> [URI |-> uri, Range |-> symbol.SelectionRange]],
                       Qname |-> DetailQname(pkgLocator.Name, qnamePrefix),
                       Package |-> pkgLocator]
         IN  <<entry>>
             \o (IF Len(symbol.Children) > 0
                 THEN flattenDocumentSymbol(symbol.Children, qnamePrefix, symbol.Name, uri,
                                            pkgLocator)
                 ELSE <<>>)
             \o flattenDocumentSymbol(Tail(symbols), prefix, container, uri, pkgLocator)

\* constructDetailSymbol, lines 579-616.  DocumentSymbol answers the outline, or an
\* error and no outline; the error is returned with what was flattened.
constructDetailSymbol(docSyms, docSymOk, uri, pkgLocator) ==
    [detailSyms |-> flattenDocumentSymbol(IF docSymOk THEN docSyms ELSE <<>>, "", "", uri,
                                          pkgLocator),
     err |-> IF docSymOk THEN "" ELSE "DocumentSymbol"]

\* Full, lines 125-166.  r is the request together with what the view, the type
\* checker and DocumentSymbol answer for it; the answer records what was looked up.
Full(r) ==
    LET out(e, syms, looked) == [valid |-> TRUE, err |-> e, Symbols |-> syms,
                                 References |-> <<>>, calls |-> looked]
    IN  IF Contains(r.filename, folderSkip) THEN out("", <<>>, {})
        ELSE IF ~r.getFileOk THEN out("GetFile", <<>>, {"ViewOf", "GetFile"})
        ELSE IF ~r.handlesOk
        THEN out("CheckPackageHandles", <<>>, {"ViewOf", "GetFile", "CheckPackageHandles"})
        ELSE IF ~r.checkOk
        THEN out("Check", <<>>, {"ViewOf", "GetFile", "CheckPackageHandles", "Check"})
        ELSE LET pkgLocator == collectPkgMetadata(r.pkg, r.folder, r.filename, r.env)
                 cds == constructDetailSymbol(r.docSyms, r.docSymOk, NewURI(r.filename),
                                              pkgLocator)
                 looked == {"ViewOf", "GetFile", "CheckPackageHandles", "Check",
                            "collectPkgMetadata", "constructDetailSymbol"}
             IN  IF cds.err # "" THEN out(cds.err, <<>>, looked)
                 ELSE out("", cds.detailSyms, looked)

---------------------------------------------------------------------------
(* SpecFull: Full requests for documents inside and outside vendor         *)
(* folders, with outlines of several shapes.                               *)

Vendor == <<"v", "e", "n", "d", "o", "r">>

FullFilenames ==
    { FolderA \o XGo,
      FolderW \o <<"/">> \o Vendor \o XGo,
      FolderA \o <<"/">> \o Vendor \o <<"/", "p">> \o XGo,
      FolderW \o <<"/">> \o Vendor \o <<"s">> \o XGo,
      FolderW \o <<"/", "x">> \o Vendor \o XGo,
      FolderW \o <<"/">> \o Vendor }

\* protocol.DocumentSymbol
Sym(name, kind, range, children) ==
    [Name |-> name, Kind |-> kind, SelectionRange |-> range, Children |-> children]

Outlines ==
    { <<>>,
      <<Sym("F", "Function", "r1", <<>>)>>,
      <<Sym("T", "Struct", "r1", <<Sym("f", "Field", "r2", <<>>), Sym("g", "Field", "r3", <<>>)>>),
        Sym("F", "Function", "r4", <<>>)>>,
      <<Sym("T", "Struct", "r1", <<Sym("a", "Field", "r2", <<Sym("x", "Field", "r3", <<>>)>>),
                                   Sym("b", "Field", "r4", <<>>)>>),
        Sym("U", "Struct", "r5", <<Sym("a", "Field", "r6", <<>>)>>)>>,
      <<Sym("x", "Variable", "r1", <<>>),
        Sym("I", "Interface", "r2", <<Sym("x", "Method", "r3", <<>>)>>),
        Sym("y", "Variable", "r4", <<>>)>> }

FullRequests ==
    [filename : FullFilenames, folder : {FolderW, FolderA}, Reference : BOOLEAN,
     getFileOk : BOOLEAN, handlesOk : BOOLEAN, checkOk : BOOLEAN, pkg : {PkgP, NoPkg},
     docSyms : Outlines, docSymOk : BOOLEAN, env : Envs]

InitFull ==
    /\ files = [d \in Dirs |-> {}]
    /\ noPerm = {}
    /\ VendorInit
    /\ DepsInit
    /\ DefInit
    /\ SharedInit

\* The handler runs on a request and its answer is held until it is sent.
FullCall ==
    /\ ~resp.valid
    /\ \E r \in FullRequests :
          /\ req' = r
          /\ resp' = Full(r)
    /\ UNCHANGED <<fsVars, vendorVars, depsVars, sharedVars>>

\* The answer goes out; the server keeps nothing of the request.
FullReturn ==
    /\ resp.valid
    /\ req' = NoReq
    /\ resp' = NoResp
    /\ UNCHANGED <<fsVars, vendorVars, depsVars, sharedVars>>

NextFull ==
    \/ FullCall
    \/ FullReturn

SpecFull == InitFull /\ [][NextFull]_vars

---------------------------------------------------------------------------
(* SpecVersion: collectPkgMetadata on files of the module cache, whose     *)
(* paths carry zero, one or two version segments of several shapes.        *)

At(name, version) == name \o <<"@">> \o version

VRc == V123 \o <<"-", "r", "c">>

VRc1 == V123 \o <<"-", "r", "c", "-", "1">>

VersionSegments ==
    { <<"p">>,
      At(<<"p">>, V123),
      At(<<"p">>, <<"v", "1">>),
      At(<<"p">>, <<"v", "0", "1", ".", "2", ".", "3">>),
      At(<<"p">>, <<"x", "1">>),
      At(<<"p">>, VRc),
      At(<<"p">>, VRc1),
      At(<<"p">>, VPseudo),
      At(<<"p">>, VPseudo \o Incompatible),
      At(<<"p">>, V123 \o Incompatible),
      At(At(<<"p">>, V123), <<"v", "1">>) }

VersionLocs ==
    {PkgMod \o <<"/">> \o s \o XGo : s \in VersionSegments}
    \cup {PkgMod \o <<"/">> \o s \o <<"/">> \o t \o XGo : s, t \in VersionSegments}

VersionRequests == [loc : VersionLocs, dir : {FolderA}, pkg : {PkgP}, env : Envs]

InitVersion ==
    /\ files = [d \in Dirs |-> {}]
    /\ noPerm = {}
    /\ VendorInit
    /\ DepsInit
    /\ DefInit
    /\ SharedInit

\* collectPkgMetadata runs on a package and the file it was found in; fast is what
\* its call of getPkgVersionFast (line 354) returned.
CollectPkgMetadataCall ==
    /\ ~resp.valid
    /\ \E r \in VersionRequests :
          /\ req' = r
          /\ resp' = [valid |-> TRUE,
                      fast |-> getPkgVersionFast(TrimPrefix(r.loc, r.env.pkgMod \o r.dir)),
                      locator |-> collectPkgMetadata(r.pkg, r.dir, r.loc, r.env)]
    /\ UNCHANGED <<fsVars, vendorVars, depsVars, sharedVars>>

CollectPkgMetadataReturn ==
    /\ resp.valid
    /\ req' = NoReq
    /\ resp' = NoResp
    /\ UNCHANGED <<fsVars, vendorVars, depsVars, sharedVars>>

NextVersion ==
    \/ CollectPkgMetadataCall
    \/ CollectPkgMetadataReturn

SpecVersion == InitVersion /\ [][NextVersion]_vars

---------------------------------------------------------------------------
(* SpecQName: getQName on the declarations of one file of package p:       *)
(*     var v int                                                           *)
(*     type T struct { f int; a, b struct{ x int }; c *struct{ f int } }   *)
(*     var s, t struct{ y int }                                            *)
(*     type I interface { i() }                                            *)
(*     func F() { l := 1 }                                                 *)
(*     func G() { l := 2 }                                                 *)
(*     func (r *T) m() { n := 3 }                                          *)
(* Two successive lookups are held, each with the name the reference went  *)
(* through when the declaration is shared by co-declared names.            *)

Idt == Node("Ident", <<>>)

FuncBody(name) == <<Idt, Node("AssignStmt", <<>>), Node("BlockStmt", <<>>),
                    Node("FuncDecl", <<name>>), Node("File", <<>>)>>

MethodBody(name, recvName) ==
    <<Idt, Node("AssignStmt", <<>>), Node("BlockStmt", <<>>),
      [Method("StarExpr", recvName) EXCEPT !.names = <<name>>], Node("File", <<>>)>>

FieldObj(name, astPath) == [Obj("Var", name, PkgP, astPath) EXCEPT !.isField = TRUE]

FileDecls ==
    { Obj("Var", "v", PkgP, TopLevel(<<"v">>)),
      TypeNameObj("T", "Struct", ""),
      FieldObj("f", InStruct("f") \o Tail(TypeDecl("T"))),
      FieldObj("x", InStruct("x") \o <<Node("Field", <<"a", "b">>), Node("FieldList", <<>>),
                                       Node("StructType", <<>>)>> \o Tail(TypeDecl("T"))),
      FieldObj("f", InStruct("f") \o <<Node("StarExpr", <<>>), Node("Field", <<"c">>),
                                       Node("FieldList", <<>>), Node("StructType", <<>>)>>
                                  \o Tail(TypeDecl("T"))),
      FieldObj("y", InStruct("y") \o Tail(TopLevel(<<"s", "t">>))),
      TypeNameObj("I", "Interface", ""),
      [Obj("Func", "i", PkgP,
           <<Idt, Node("Field", <<"i">>), Node("FieldList", <<>>),
             Node("InterfaceType", <<>>)>> \o Tail(TypeDecl("I"))) EXCEPT !.hasRecv = TRUE],
      Obj("Func", "F", PkgP, <<Idt, Node("FuncDecl", <<"F">>), Node("File", <<>>)>>),
      Obj("Func", "G", PkgP, <<Idt, Node("FuncDecl", <<"G">>), Node("File", <<>>)>>),
      Obj("Var", "l", PkgP, FuncBody("F")),
      Obj("Var", "l", PkgP, FuncBody("G")),
      [Obj("Func", "m", PkgP, <<Idt, [Method("StarExpr", "T") EXCEPT !.names = <<"m">>],
                                Node("File", <<>>)>>) EXCEPT !.hasRecv = TRUE],
      Obj("Var", "n", PkgP, MethodBody("m", "T")),
      Obj("PkgName", "q", PkgP, <<Idt, Node("ImportSpec", <<>>), Node("GenDecl", <<>>),
                                  Node("File", <<>>)>>) }

\* The names declared together with one anonymous struct type around the
\* declaration: those of the Field or ValueSpec that is the father of a StructType
\* and declares several names.
CoDeclared(declObj) ==
    LET p == declObj.astPath
        K == {k \in 2..(Len(p) - 1) : /\ p[k].type = "StructType"
                                      /\ p[k + 1].type \in {"Field", "ValueSpec"}
                                      /\ Len(p[k + 1].names) > 1}
    IN  IF K = {} THEN <<>> ELSE p[(CHOOSE k \in K : \A j \in K : k <= j) + 1].names

\* The names a reference can go through to reach the declaration.
ViaNames(declObj) == IF CoDeclared(declObj) = <<>> THEN {""} ELSE Range(CoDeclared(declObj))

NoLookup == [valid |-> FALSE]

InitQName ==
    /\ files = [d \in Dirs |-> {}]
    /\ noPerm = {}
    /\ VendorInit
    /\ DepsInit
    /\ DefInit
    /\ SharedInit

\* getQName runs for a declaration of the file, as EDefinition calls it (lines
\* 110-114) with the kind getSymbolKind gave; the previous lookup is kept.
GetQNameCall ==
    \E declObj \in FileDecls, parseOk \in BOOLEAN :
       \E via \in ViaNames(declObj) :
          /\ req' = [valid |-> TRUE, declObj |-> declObj, via |-> via, parseOk |-> parseOk]
          /\ resp' = [valid |-> TRUE,
                      qname |-> getQName(parseOk, declObj, getSymbolKind(declObj)),
                      prev |-> IF resp.valid
                               THEN [valid |-> TRUE, declObj |-> req.declObj,
                                     parseOk |-> req.parseOk, qname |-> resp.qname]
                               ELSE NoLookup]
          /\ UNCHANGED <<fsVars, vendorVars, depsVars, sharedVars>>

NextQName == GetQNameCall

SpecQName == InitQName /\ [][NextQName]_vars

---------------------------------------------------------------------------
(* Claims about the module manager, the registry and Cleanup.              *)

\* C3: every folder in which ManageDeps (install-dependencies disabled) manually
\* wrote a go.mod is in the server's cleanup list once ManageDeps has returned, and
\* after Cleanup no manually written go.mod is left on disk.
C3_ManualGoModRecordedAndCleaned ==
    /\ pc \in {"idle", "shutdown"} => manualGoMod \subseteq Range(FolderNeedsCleanup)
    /\ pc = "shutdown" => \A d \in manualGoMod : "go.mod" \notin files[d]

SegmentsBelow(folder, d) == {d[k] : k \in (Len(folder) + 1)..Len(d)}

OpenDownTo(np, folder, d) ==
    \A k \in Len(folder)..Len(d) : SubSeq(d, 1, k) \notin np

SourceDirs(fs, np, folder) ==
    {d \in Dirs : /\ IsPrefix(folder, d)
                  /\ \A n \in SegmentsBelow(folder, d) : ~IsHiddenName(n)
                  /\ OpenDownTo(np, folder, d)
                  /\ \E name \in fs[d] : HasGoExt(name) /\ ~IsTestFile(name)}

\* C5: after collectMetadata returns without error, every module initialization
\* having succeeded, every directory of the tree holding a regular source file has
\* an ancestor-or-self among the returned module roots, and its nearest such root
\* occurs once in the list.
C5_EverySourceDirCovered ==
    (/\ lastScan.valid
     /\ ~lastScan.err
     /\ \A r \in Range(lastScan.attempted) : lastScan.outcome[r] = "ok")
    => \A d \in SourceDirs(lastScan.filesBefore, noPerm, lastScan.folder) :
          LET E == {m \in Range(lastScan.module) : IsPrefix(m, d)}
          IN  /\ E # {}
              /\ \A m \in E : (\A m2 \in E : Len(m2) <= Len(m)) => Count(lastScan.module, m) = 1

IsCommonPrefix(p, U) == \A u \in U : IsPrefix(p, u)

C7_NoFetchAfterFailure ==
    /\ failedSinceClear \subseteq Range(folderUnderVendorMode)
    /\ lastFetch.valid =>
          /\ lastFetch.fetched => (lastFetch.check < 0 /\ ~lastFetch.wasFailed)
          /\ (lastFetch.fetched /\ ~lastFetch.ok) =>
                lastFetch.dir \in Range(folderUnderVendorMode)

\* The first iteration of a call meets a folder whose fetch failed in an earlier call.
C7_Witness ==
    /\ pc = "download"
    /\ idx = 1
    /\ lastFetch.valid
    /\ lastFetch.wasFailed
    /\ ~lastFetch.fetched
    /\ lastFetch.check >= 0

\* C8: a failure on one folder never aborts the others: ManageDeps runs on every
\* folder of the original list, in order, before it calls downloadDeps; collectMetadata
\* attempts the initialization of every new root whatever the earlier ones met; and
\* downloadDeps visits every folder of the list whatever the earlier fetches met.
C8_FailureDoesNotAbort ==
    /\ pc = "run" => (ranged = original /\ scanned = SubSeq(original, 1, idx))
    /\ pc = "download" => scanned = original
    /\ lastScan.valid => lastScan.attempted = lastScan.needMod
    /\ (pc = "download" /\ depsMgr.installGoDeps) =>
          (ranged = folders /\ visited = SubSeq(folders, 1, idx))

\* The initialization of WB failed and that of the later root W succeeded; both
\* folders of the list were scanned; a fetch failed and a later folder was fetched.
C8_Witness ==
    /\ pc = "download"
    /\ Len(original) = 2
    /\ scanned = original
    /\ "go.mod" \notin files[WB]
    /\ {"go.mod", "go.sum"} \cap files[W] = {"go.mod"}
    /\ lastFetch.valid
    /\ lastFetch.fetched
    /\ \E k \in 1..(idx - 1) : visited[k] \in failedSinceClear /\ visited[k] # lastFetch.dir

---------------------------------------------------------------------------
(* Claims about EDefinition.                                               *)

\* Lines 78-91 succeeded: the file, the identifier and the declaration's range.
Resolved(r) == r.getFileOk /\ r.identOk /\ r.rangeOk

\* The file lies under the root as a path: it is the root or below it.
UnderRoot(filename, root) == filename = root \/ IsPrefix(root \o <<"/">>, filename)

\* C1: an EDefinition request whose resolved declaration file lies under the view's
\* root succeeds with exactly one result: its location is the declaration's URI and
\* range, its package locator is empty, its qualified name and kind are unset, and
\* none of getSymbolKind, getQName and collectPkgMetadata was invoked.
C1_SameViewFastPath ==
    (resp.valid /\ Resolved(req) /\ UnderRoot(req.declFilename, req.folder)) =>
        /\ resp.err = ""
        /\ Len(resp.results) = 1
        /\ resp.results[1].hasLoc
        /\ resp.results[1].URI = NewURI(req.declFilename)
        /\ resp.results[1].Range = req.declRange
        /\ resp.results[1].Package = EmptyLocator
        /\ resp.results[1].Qname = ""
        /\ resp.results[1].Kind = NoKind
        /\ resp.calls = {}

C1_Witness ==
    /\ resp.valid
    /\ Resolved(req)
    /\ req.folder = FolderA
    /\ req.declFilename = FolderA \o XGo
    /\ Len(resp.results) = 1
    /\ resp.results[1].hasLoc

\* C2: an EDefinition request whose resolved declaration file lies outside the
\* view's root returns, when getSymbolKind yields the unmapped kind, the error naming
\* the identifier and no result, and otherwise exactly one result without location,
\* with a non-empty qualified name, the kind and the package locator.
C2_CrossViewResult ==
    (resp.valid /\ Resolved(req) /\ ~UnderRoot(req.declFilename, req.folder)) =>
        IF getSymbolKind(req.declObj) = NoKind
        THEN /\ resp.err = "no corresponding symbol kind for '" \o req.declObj.name \o "'"
             /\ resp.results = <<>>
        ELSE /\ resp.err = ""
             /\ Len(resp.results) = 1
             /\ ~resp.results[1].hasLoc
             /\ resp.results[1].Qname # ""
             /\ resp.results[1].Kind = getSymbolKind(req.declObj)
             /\ resp.results[1].Package =
                   collectPkgMetadata(req.declObj.pkg, req.folder, req.declFilename, req.env)

---------------------------------------------------------------------------
(* Claims about Full.                                                      *)

\* The segments of a file name: what lies between its separators.
RECURSIVE Segments(_)
Segments(s) ==
    IF \E k \in 1..Len(s) : s[k] = "/"
    THEN <<FirstPiece(s, "/")>> \o Segments(SubSeq(s, Len(FirstPiece(s, "/")) + 2, Len(s)))
    ELSE <<s>>

\* The segments that name directories: all but the last.
DirSegments(s) == SubSeq(Segments(s), 1, Len(Segments(s)) - 1)

EmptyFullResponse ==
    /\ resp.err = ""
    /\ resp.Symbols = <<>>
    /\ resp.References = <<>>
    /\ resp.calls = {}

\* C11 as stated: a Full request whose document path has a segment named vendor,
\* the last one included, is answered with empty symbols and references and no
\* error, nothing having been looked up; and every Full answer has an empty
\* reference list.
C11_VendorSegmentSkipped ==
    resp.valid =>
        /\ (Vendor \in Range(Segments(req.filename)) => EmptyFullResponse)
        /\ resp.References = <<>>

\* C11: a Full request whose document lies in or below a directory named vendor is
\* answered with empty symbols and references and no error, nothing having been
\* looked up; and every Full answer, whatever the Reference flag, has an empty
\* reference list.
C11_VendorFolderSkipped ==
    resp.valid =>
        /\ (Vendor \in Range(DirSegments(req.filename)) => EmptyFullResponse)
        /\ resp.References = <<>>

C11_Witness ==
    /\ resp.valid
    /\ req.filename = FolderA \o <<"/">> \o Vendor \o <<"/", "p">> \o XGo
    /\ req.Reference
    /\ req.getFileOk /\ req.handlesOk /\ req.checkOk /\ req.docSymOk
    /\ req.docSyms # <<>>
    /\ resp.Symbols = <<>>

\* The nodes of an outline, each named by the indices that lead to it.
RECURSIVE NodePaths(_)
NodePaths(symbols) ==
    UNION {{<<i>>} \cup {<<i>> \o p : p \in NodePaths(symbols[i].Children)} :
             i \in 1..Len(symbols)}

RECURSIVE NodeAt(_, _)
NodeAt(symbols, p) ==
    IF Len(p) = 1 THEN symbols[p[1]] ELSE NodeAt(symbols[p[1]].Children, Tail(p))

\* p comes before q in pre-order: p is an ancestor of q, or p branches off to the
\* left of q.
Before(p, q) ==
    \/ (Len(p) < Len(q) /\ SubSeq(q, 1, Len(p)) = p)
    \/ \E k \in 1..Len(p) :
          /\ k <= Len(q)
          /\ SubSeq(p, 1, k - 1) = SubSeq(q, 1, k - 1)
          /\ p[k] < q[k]

Rank(symbols, p) == 1 + Cardinality({q \in NodePaths(symbols) : Before(q, p)})

Parent(p) == SubSeq(p, 1, Len(p) - 1)

FullServed == resp.valid /\ resp.err = "" /\ ~Contains(req.filename, folderSkip)

\* One entry per node of the outline, in pre-order, each with its node's name and
\* the locator of the package.
OneEntryPerNode(topQname(_)) ==
    LET syms == req.docSyms
        out  == resp.Symbols
        loc  == collectPkgMetadata(req.pkg, req.folder, req.filename, req.env)
    IN  /\ Len(out) = Cardinality(NodePaths(syms))
        /\ \A p \in NodePaths(syms) :
              LET e == out[Rank(syms, p)]
                  n == NodeAt(syms, p)
              IN  /\ e.Symbol.Name = n.Name
                  /\ e.Symbol.Kind = n.Kind
                  /\ e.Symbol.Location.Range = n.SelectionRange
                  /\ e.Package = loc
                  /\ e.Qname = IF Len(p) = 1 THEN topQname(n)
                               ELSE out[Rank(syms, Parent(p))].Qname \o "." \o n.Name

\* C12 as stated: Full's symbol list has one entry per outline node in pre-order,
\* each with the package locator; the qualified name of an entry is its parent's
\* qualified name + "." + its own name, and just its own name at top level.
C12_TopLevelOwnName ==
    FullServed => OneEntryPerNode(LAMBDA n : n.Name)

\* C12: Full's symbol list has one entry per outline node in pre-order, each with
\* the package locator; the qualified name of an entry is its parent's qualified
\* name + "." + its own name, and at top level the locator's package name + "." +
\* its own name.
C12_PreOrderQualifiedNames ==
    FullServed =>
        OneEntryPerNode(LAMBDA n : collectPkgMetadata(req.pkg, req.folder, req.filename,
                                                      req.env).Name \o "." \o n.Name)

C12_Witness ==
    /\ FullServed
    /\ Len(req.docSyms) = 2
    /\ Len(resp.Symbols) = 6
    /\ resp.Symbols[3].Qname = "p.T.a.x"
    /\ resp.Symbols[5].Qname = "p.U"

---------------------------------------------------------------------------
(* Claims about the package version.                                       *)

HexChars == DigitChars \cup {"a", "b", "c", "d", "e", "f"}

\* A pseudo-version base-timestamp-hash, with or without +incompatible: two
\* hyphens, digits between them (after a dotted pre-release prefix, if any) and a
\* hexadecimal commit hash after the last.
IsPseudoVersion(v) ==
    LET core == TrimSuffix(v, Incompatible)
        last == LastIndexChar(core, "-")
        head == SubSeq(core, 1, last - 1)
        mid  == LastIndexChar(head, "-")
        dot  == LastIndexChar(SubSeq(head, mid + 1, Len(head)), ".")
    IN  /\ IsValid(v)
        /\ CountChar(core, "-") = 2
        /\ last < Len(core)
        /\ \A k \in (last + 1)..Len(core) : core[k] \in HexChars
        /\ mid + dot < Len(head)
        /\ \A k \in (mid + dot + 1)..Len(head) : head[k] \in DigitChars

\* The commit hash of a pseudo-version.
CommitHash(v) ==
    LET core == TrimSuffix(v, Incompatible)
    IN  SubSeq(core, LastIndexChar(core, "-") + 1, Len(core))

\* C13: a non-empty Version set by getPkgVersion is the valid version segment of
\* the path, unchanged, or the commit hash of a pseudo-version; a raw version that is
\* not a pseudo-version is never truncated, and a raw version with one hyphen or
\* fewer is kept unchanged.
C13_VersionIsSemverOrCommitHash ==
    (resp.valid /\ resp.locator.Version # <<>>) =>
        LET raw == resp.fast
            ver == resp.locator.Version
        IN  /\ IsValid(raw)
            /\ IF IsPseudoVersion(raw) THEN ver = CommitHash(raw) ELSE ver = raw
            /\ CountChar(raw, "-") <= 1 => ver = raw

\* The file name from the character after the k-th character up to the next
\* separator.
AfterAt(s, k) == FirstPiece(SubSeq(s, k + 1, Len(s)), "/")

ValidAt(s) == {k \in 1..Len(s) : s[k] = "@" /\ IsValid(AfterAt(s, k))}

\* C14: getPkgVersionFast returns a version exactly when one path segment
\* following an '@' is a valid semantic version, and then that segment; with none
\* or several it returns the empty string, and then the locator's Version stays
\* empty while collectPkgMetadata still returns the package's name and a
\* repository URI.
C14_FastVersionIffExactlyOne ==
    resp.valid =>
        LET s == TrimPrefix(req.loc, req.env.pkgMod \o req.dir)
        IN  /\ resp.fast # <<>> <=> Cardinality(ValidAt(s)) = 1
            /\ resp.fast # <<>> => \E k \in ValidAt(s) : resp.fast = AfterAt(s, k)
            /\ resp.fast = <<>> =>
                  /\ resp.locator.Version = <<>>
                  /\ resp.locator.Name = req.pkg.Name
                  /\ resp.locator.RepoURI \in {req.pkg.Path, req.env.repoRoot}
                  /\ resp.locator.RepoURI # ""

\* Two valid version segments: getPkgVersionFast gives up and the locator comes
\* back without version.
C14_Witness ==
    /\ resp.valid
    /\ req.loc = PkgMod \o <<"/">> \o At(<<"p">>, V123) \o <<"/">> \o At(<<"p">>, VPseudo) \o XGo
    /\ resp.fast = <<>>
    /\ resp.locator.Version = <<>>
    /\ resp.locator.Name = "p"

---------------------------------------------------------------------------
(* Claims about getQName.                                                  *)

\* The name of the type declaration around the declaration, followed by a dot, or
\* nothing when the declaration is in no type declaration.
OuterType(declObj) ==
    LET p == declObj.astPath
        K == {k \in 2..Len(p) : p[k].type = "TypeSpec"}
    IN  IF K = {} THEN "" ELSE p[CHOOSE k \in K : TRUE].names[1] \o "."

QNameThrough(declObj, name) ==
    declObj.pkg.Name \o "." \o OuterType(declObj) \o name \o "." \o declObj.name

\* C15: for a member of an anonymous struct type that several names are declared
\* with (fields a, b struct{...} or variables var s, t struct{...}), getQName
\* prepends the first declared name and never another, whichever of the names the
\* member is reached through.
C15_FirstCoDeclaredName ==
    (resp.valid /\ req.parseOk /\ CoDeclared(req.declObj) # <<>>) =>
        LET names == CoDeclared(req.declObj)
        IN  /\ resp.qname = QNameThrough(req.declObj, names[1])
            /\ \A k \in 2..Len(names) : resp.qname # QNameThrough(req.declObj, names[k])

C15_Witness ==
    /\ resp.valid
    /\ req.parseOk
    /\ req.declObj.name = "x"
    /\ CoDeclared(req.declObj) = <<"a", "b">>
    /\ req.via = "b"
    /\ resp.qname = "p.T.a.x"
    /\ resp.prev.valid
    /\ resp.prev.declObj.name = "y"
    /\ resp.prev.qname = "p.s.y"

\* C16: getQName gives two distinct non-package declarations of the same file
\* different qualified names.
C16_QNameUnique ==
    (/\ resp.valid
     /\ resp.prev.valid
     /\ req.parseOk
     /\ resp.prev.parseOk
     /\ req.declObj # resp.prev.declObj
     /\ getSymbolKind(req.declObj) # "Package"
     /\ getSymbolKind(resp.prev.declObj) # "Package")
    => resp.qname # resp.prev.qname

---------------------------------------------------------------------------
(* Claims about the folder list of ManageDeps.                             *)

\* What ManageDeps appended to the list the client sent.
AddedFolders == SubSeq(folders, Len(original) + 1, Len(folders))

\* C17: when ManageDeps has processed the folder list, every module folder the
\* scans added to it occurs in it once, no folder the client sent was added again,
\* and (the client's folders being distinct) downloadDeps does not fetch for a
\* folder it already fetched for in this call: a folder fetched for now was not
\* visited before, since a folder visited before is fetched for again only when it
\* was fetched for then.
C17_FoldersAddedOnce ==
    pc = "download" =>
        /\ \A d \in Range(AddedFolders) : Count(AddedFolders, d) = 1
        /\ Range(AddedFolders) \cap Range(original) = {}
        /\ (/\ \A d \in Range(original) : Count(original, d) = 1
            /\ lastFetch.valid
            /\ lastFetch.fetched)
           => lastFetch.dir \notin Range(SubSeq(visited, 1, Len(visited) - 1))

---------------------------------------------------------------------------
(* SpecShared: downloadDeps called by two goroutines on the registry they  *)
(* share. The closures of vendorModeHelper take no lock, so the steps of   *)
(* two calls in progress at once interleave between registry accesses: the *)
(* checkVendorFolder of line 450 is one step, go mod download with the     *)
(* storeVendorFolder of line 459 the next. The view creation looks a       *)
(* folder up and drops what it found.                                      *)

MaxShared == 2

\* A loop that fetches for every folder, whatever checkVendorFolder answered.
skipFolderNever(ret) == FALSE

\* Lines 450-452: the folder is passed over when checkVendorFolder answers an index.
skipFolder(ret) == ret >= 0

\* What a folder holds: a module whose fetch may fail, or a vendor folder only.
SharedKinds == { {"go.mod", "go.sum", "x.go"}, {"vendor", "x.go"} }

InitShared ==
    /\ files \in {f \in [Dirs -> SharedKinds \cup {{}}] :
                     /\ \A d \in DownloadFolders : f[d] # {}
                     /\ \A d \in Dirs \ DownloadFolders : f[d] = {}}
    /\ noPerm = {}
    /\ VendorInit
    /\ DepsInit
    /\ DefInit
    /\ SharedInit

\* A goroutine enters downloadDeps with a folder list (line 444).
DownloadDepsEnter(c, fl, installGoDeps) ==
    /\ callers[c].pc = "idle"
    /\ calls < MaxShared
    /\ calls' = calls + 1
    /\ callers' = [callers EXCEPT ![c] = [pc |-> "check", installGoDeps |-> installGoDeps,
                                          ranged |-> fl, idx |-> 0]]
    /\ overlapped' = (overlapped \/ \E o \in Callers \ {c} : callers[o].pc # "idle")
    /\ UNCHANGED <<fsVars, vendorVars, defVars, pc, folders, ranged, idx, depsMgr,
                   FolderNeedsCleanup, lastScan, manualGoMod, original, scanned, visited,
                   lastFetch, failedSinceClear, atShutdown>>

\* Lines 448-452: the next folder is looked up; checkVendorFolder may append it.
CheckVendorFolderStep(c) ==
    /\ callers[c].pc = "check"
    /\ callers[c].installGoDeps
    /\ callers[c].idx < Len(callers[c].ranged)
    /\ LET dir == callers[c].ranged[callers[c].idx + 1]
           chk == checkVendorFolder(folderUnderVendorMode, files, noPerm, dir)
       IN  /\ folderUnderVendorMode' = chk.reg
           /\ callers' = [callers EXCEPT ![c] =
                             IF skipFolder(chk.ret)
                             THEN [@ EXCEPT !.idx = @ + 1]
                             ELSE [@ EXCEPT !.pc = "fetch"]]
    /\ UNCHANGED <<fsVars, defVars, depsVars, lastOp, overlapped>>

\* Lines 453-460: go mod download runs in the folder; when it fails the folder is
\* stored, whatever the registry has become since the lookup.
GoModDownloadStep(c, fetchOk) ==
    /\ callers[c].pc = "fetch"
    /\ LET dir == callers[c].ranged[callers[c].idx + 1]
       IN  /\ folderUnderVendorMode' =
                 IF fetchOk THEN folderUnderVendorMode
                 ELSE storeVendorFolder(folderUnderVendorMode, dir)
           /\ callers' = [callers EXCEPT ![c] = [@ EXCEPT !.pc = "check", !.idx = @ + 1]]
    /\ UNCHANGED <<fsVars, defVars, depsVars, lastOp, overlapped>>

\* downloadDeps returns: at line 446 when installGoDeps is not set, else after the
\* last folder.
DownloadDepsLeave(c) ==
    /\ callers[c].pc = "check"
    /\ ~callers[c].installGoDeps \/ callers[c].idx = Len(callers[c].ranged)
    /\ callers' = [callers EXCEPT ![c] = NoCall]
    /\ UNCHANGED <<fsVars, vendorVars, defVars, depsVars, overlapped>>

\* The view creation: clearVendorFolder(checkVendorFolder(folder)).
ClearCheckedFolder(folder) ==
    /\ LET chk == checkVendorFolder(folderUnderVendorMode, files, noPerm, folder)
           reg == clearVendorFolder(chk.reg, chk.ret)
       IN  /\ folderUnderVendorMode' = reg
           /\ lastOp' = [op |-> "check+clear", folder |-> folder, index |-> chk.ret,
                         flagged |-> folder \in Range(reg)]
    /\ UNCHANGED <<fsVars, defVars, depsVars, sharedVars>>

NextShared ==
    \/ \E c \in Callers, fl \in DownloadLists, installGoDeps \in BOOLEAN :
          DownloadDepsEnter(c, fl, installGoDeps)
    \/ \E c \in Callers : CheckVendorFolderStep(c)
    \/ \E c \in Callers, fetchOk \in BOOLEAN : GoModDownloadStep(c, fetchOk)
    \/ \E c \in Callers : DownloadDepsLeave(c)
    \/ \E folder \in DownloadFolders : ClearCheckedFolder(folder)

SpecShared == InitShared /\ [][NextShared]_vars

---------------------------------------------------------------------------
(* Claims about the registry under downloadDeps calls.                     *)

NoDuplicates(reg) == \A i, j \in 1..Len(reg) : reg[i] = reg[j] => i = j

\* C18: as long as no two downloadDeps calls were in progress at once, the registry
\* holds no folder twice, and the view creation's
\* clearVendorFolder(checkVendorFolder(folder)) leaves the folder out of the
\* registry.
C18_OneAtATimeNoDuplicates ==
    ~overlapped =>
        /\ NoDuplicates(folderUnderVendorMode)
        /\ lastOp.op = "check+clear" => ~lastOp.flagged

\* Two calls one after the other failed to fetch for WA, which holds a go.mod; the
\* first stored it, the second passed it over, and the view creation then dropped it.
C18_Witness ==
    /\ ~overlapped
    /\ calls = 2
    /\ \A c \in Callers : callers[c].pc = "idle"
    /\ "go.mod" \in files[WA]
    /\ lastOp.op = "check+clear"
    /\ lastOp.folder = WA
    /\ lastOp.index >= 0
    /\ ~lastOp.flagged
    /\ WA \notin Range(folderUnderVendorMode)

\* Two calls in progress at once both looked WA up before either stored it: the
\* registry holds it twice, and dropping what the lookup finds leaves it flagged.
C18_InterleavedDuplicate ==
    /\ overlapped
    /\ lastOp.op = "check+clear"
    /\ lastOp.folder = WA
    /\ lastOp.index = 0
    /\ lastOp.flagged
    /\ folderUnderVendorMode = <<WA>>

====
